---- MODULE Spec2Model ----
(***************************************************************************)
(* Verification model of the vite build core:                              *)
(*   - build/index.ts   : build(), doBuild(), the parallel-build counter,  *)
(*                        resolveBuildOptions()                            *)
(*   - plugins/index.ts : resolvePlugins(), getSortedPluginsByHook(),      *)
(*                        createPluginHookUtils(), transformWithOxc(),     *)
(*                        oxcPlugin(), convertEsbuildConfigToOxcConfig()   *)
(* Each subsystem has its own specification (SpecBuild, SpecSort, ...);    *)
(* the variables of the other subsystems stay at their idle value.         *)
(***************************************************************************)
EXTENDS Integers, Sequences, FiniteSets, TLC

(***************************************************************************)
(* Bounds                                                                  *)
(***************************************************************************)
MaxCalls == 2
MaxPlugins == 3
MaxBucket == 2
MaxProvided == 1
MaxTokens == 5
MaxBase == 4
MaxResolves == 2
MaxUtilPlugins == 2

Undef == "undefined"

(***************************************************************************)
(* State                                                                   *)
(***************************************************************************)
VARIABLES
  \* ---- build/index.ts ----
  parallelCallCounts,  \* let parallelCallCounts = 0
  paralellBuilds,      \* const paralellBuilds: RollupBuild[] = []
  pc,                  \* position of each build() invocation
  write,               \* options.write of each invocation's resolved config
  thrown,              \* the error thrown inside each invocation ("none" if none)
  logged,              \* the error each invocation passed to config.logger.error
  settled,             \* how each build() promise settled
  outDir,              \* the files of the output directory
  publicExists,        \* fs.existsSync(publicDir)
  closeCount,          \* number of bundle.close() calls per handle
  clearCount,          \* history: number of "paralellBuilds.length = 0"
  zeroCount,           \* history: number of returns to zero of the counter
  regEpoch,            \* history: zeroCount when the handle was pushed
  closeEpoch,          \* history: zeroCount when the handle was closed
  \* ---- plugins/index.ts, getSortedPluginsByHook ----
  plugins,             \* the manifest handed to the hook scheduler
  hookName,            \* the hook name of the last call (Undef before it)
  sortedPlugins,       \* the value the last call returned
  \* ---- plugins/index.ts, resolvePlugins ----
  config,              \* the ResolvedConfig fields resolvePlugins reads
  prePlugins,          \* the caller's three plugin buckets
  normalPlugins,
  postPlugins,
  providerResult,      \* what resolveBuildPlugins(config) returns
  resolved,            \* resolved[n]: the manifest returned by the run with
                       \* enableNativePlugin = n (<<>> before that run)
  providerInvoked,     \* providerInvoked[n]: that run called resolveBuildPlugins
  \* ---- plugins/index.ts, transformWithOxc and oxcPlugin ----
  jsxInject,           \* whether config.oxc sets jsxInject
  suppliedOptions,     \* history: the transform options as first supplied
  oxcTransformOptions, \* the explicit options object, shared by all calls
  server,              \* whether configureServer has set `server`
  lastCall,            \* <<inputs of the last call>>, <<>> before it
  lastResult,          \* <<what the last call did>>, <<>> before it
  watched,             \* the files registered with the watcher
  \* ---- build/index.ts, resolveBuildOptions ----
  rawOptions,          \* the BuildOptions the caller wrote
  buildOptions,        \* <<the object the last call returned>>, <<>> before it
  resolveCount,        \* number of resolveBuildOptions calls made
  \* ---- plugins/index.ts, createPluginHookUtils ----
  utilPlugins,         \* utilPlugins[u]: the manifest of the u-th utilities
  sortedPluginsCache,  \* the entries of the caches, <<>> for a missing entry
  lastReturn,          \* <<the last call and its return value>>, <<>> before it
  \* ---- plugins/index.ts, convertEsbuildConfigToOxcConfig ----
  esbuildConfig,       \* the ESBuildOptions handed to the conversion
  declaration,         \* which declaration of the function ran (0 before it)
  oxcOptions,          \* <<the OxcOptions returned>>, <<>> before the call
  loggerWarnings       \* the warnings given to logger.warn

buildVars == <<parallelCallCounts, paralellBuilds, pc, write, thrown, logged,
               settled, outDir, publicExists, closeCount, clearCount,
               zeroCount, regEpoch, closeEpoch>>

sortVars == <<plugins, hookName, sortedPlugins>>

assembleVars == <<config, prePlugins, normalPlugins, postPlugins,
                  providerResult, resolved, providerInvoked>>

oxcVars == <<jsxInject, suppliedOptions, oxcTransformOptions, server,
             lastCall, lastResult, watched>>

optionVars == <<rawOptions, buildOptions, resolveCount>>

utilVars == <<utilPlugins, sortedPluginsCache, lastReturn>>

convertVars == <<esbuildConfig, declaration, oxcOptions, loggerWarnings>>

vars == <<buildVars, sortVars, assembleVars, oxcVars, optionVars, utilVars,
          convertVars>>

\* What the actions of one subsystem leave alone.
notBuild ==
  <<sortVars, assembleVars, oxcVars, optionVars, utilVars, convertVars>>
notSort ==
  <<buildVars, assembleVars, oxcVars, optionVars, utilVars, convertVars>>
notAssemble ==
  <<buildVars, sortVars, oxcVars, optionVars, utilVars, convertVars>>
notOxc ==
  <<buildVars, sortVars, assembleVars, optionVars, utilVars, convertVars>>
notOptions ==
  <<buildVars, sortVars, assembleVars, oxcVars, utilVars, convertVars>>
notUtils ==
  <<buildVars, sortVars, assembleVars, oxcVars, optionVars, convertVars>>
notConvert ==
  <<buildVars, sortVars, assembleVars, oxcVars, optionVars, utilVars>>


(***************************************************************************)
(* build/index.ts : build() and doBuild()                                  *)
(***************************************************************************)
Calls == 1..MaxCalls

\* A file of the output directory: stale content, a copy of the public
\* directory, or a file emitted by the bundle of invocation `by`.
File(kind, by) == [kind |-> kind, by |-> by]
StaleFiles == {File("stale", 0)}
PublicFiles == {File("public", 0)}

RangeOf(s) == {s[k] : k \in 1..Len(s)}

\* build(): "parallelCallCounts++" then doBuild() runs up to its first await
\* (resolveConfig).
BuildEnter(i) ==
  /\ pc[i] = "idle"
  /\ parallelCallCounts' = parallelCallCounts + 1
  /\ pc' = [pc EXCEPT ![i] = "resolveConfig"]
  /\ UNCHANGED <<notBuild, paralellBuilds, write, thrown, logged, settled, outDir,
                 publicExists, closeCount, clearCount, zeroCount, regEpoch,
                 closeEpoch>>

\* resolveConfig() fulfils: the plugin list is built and rollup.rollup() is
\* called (second await).
ConfigResolved(i) ==
  /\ pc[i] = "resolveConfig"
  /\ \E w \in BOOLEAN : write' = [write EXCEPT ![i] = w]
  /\ pc' = [pc EXCEPT ![i] = "rollup"]
  /\ UNCHANGED <<notBuild, parallelCallCounts, paralellBuilds, thrown, logged, settled,
                 outDir, publicExists, closeCount, clearCount, zeroCount,
                 regEpoch, closeEpoch>>

\* A build() without try/finally: the rejection skips the cleanup.
ConfigFailedNoCleanup(i) ==
  /\ pc[i] = "resolveConfig"
  /\ thrown' = [thrown EXCEPT ![i] = "config"]
  /\ settled' = [settled EXCEPT ![i] = "config"]
  /\ pc' = [pc EXCEPT ![i] = "done"]
  /\ UNCHANGED <<notBuild, parallelCallCounts, paralellBuilds, write, logged, outDir,
                 publicExists, closeCount, clearCount, zeroCount, regEpoch,
                 closeEpoch>>

\* resolveConfig() rejects: the await is outside doBuild's try block, so the
\* error leaves doBuild without being logged; build()'s finally is next.
ConfigFailed(i) ==
  /\ pc[i] = "resolveConfig"
  /\ thrown' = [thrown EXCEPT ![i] = "config"]
  /\ pc' = [pc EXCEPT ![i] = "finally"]
  /\ UNCHANGED <<notBuild, parallelCallCounts, paralellBuilds, write, logged, settled,
                 outDir, publicExists, closeCount, clearCount, zeroCount,
                 regEpoch, closeEpoch>>

\* The catch block of doBuild: log the error and rethrow the same error.
CatchUnlogged(i, e) ==
  /\ UNCHANGED logged
  /\ thrown' = [thrown EXCEPT ![i] = e]
  /\ pc' = [pc EXCEPT ![i] = "finally"]
Catch(i, e) ==
  /\ logged' = [logged EXCEPT ![i] = e]
  /\ thrown' = [thrown EXCEPT ![i] = e]
  /\ pc' = [pc EXCEPT ![i] = "finally"]

\* emptyDir(outDir), then copyDir(publicDir, outDir) when publicDir exists.
PreparedDirKeepsStale(dir, hasPublic) ==
  dir \cup (IF hasPublic THEN PublicFiles ELSE {})
PreparedDir(dir, hasPublic) == IF hasPublic THEN PublicFiles ELSE {}

\* rollup.rollup() fulfils: the bundle is pushed, the output directory is
\* prepared when options.write, and bundle.write / bundle.generate is called.
Bundled(i) ==
  /\ pc[i] = "rollup"
  /\ paralellBuilds' = Append(paralellBuilds, i)
  /\ regEpoch' = [regEpoch EXCEPT ![i] = zeroCount]
  /\ \/ /\ write[i]
        /\ outDir' = PreparedDir(outDir, publicExists)
        /\ pc' = [pc EXCEPT ![i] = "output"]
        /\ UNCHANGED <<thrown, logged>>
     \/ /\ ~write[i]
        /\ pc' = [pc EXCEPT ![i] = "output"]
        /\ UNCHANGED <<thrown, logged, outDir>>
     \/ \* emptyDir throws
        /\ write[i]
        /\ Catch(i, "fs")
        /\ UNCHANGED outDir
     \/ \* copyDir throws after emptyDir has run
        /\ write[i]
        /\ publicExists
        /\ outDir' = {}
        /\ Catch(i, "fs")
  /\ UNCHANGED <<notBuild, parallelCallCounts, write, settled, publicExists, closeCount,
                 clearCount, zeroCount, closeEpoch>>

\* rollup.rollup() rejects: catch block.
BundleFailed(i) ==
  /\ pc[i] = "rollup"
  /\ Catch(i, "bundle")
  /\ UNCHANGED <<notBuild, parallelCallCounts, paralellBuilds, write, settled, outDir,
                 publicExists, closeCount, clearCount, zeroCount, regEpoch,
                 closeEpoch>>

\* bundle[options.write ? 'write' : 'generate']
OutputMethodWrite(w) == "write"
OutputMethod(w) == IF w THEN "write" ELSE "generate"

\* bundle.write() / bundle.generate() fulfils: doBuild returns.
OutputDone(i) ==
  /\ pc[i] = "output"
  /\ outDir' = IF OutputMethod(write[i]) = "write"
               THEN outDir \cup {File("fresh", i)} ELSE outDir
  /\ pc' = [pc EXCEPT ![i] = "finally"]
  /\ UNCHANGED <<notBuild, parallelCallCounts, paralellBuilds, write, thrown, logged,
                 settled, publicExists, closeCount, clearCount, zeroCount,
                 regEpoch, closeEpoch>>

\* bundle.write() / bundle.generate() rejects: catch block.
OutputFailed(i) ==
  /\ pc[i] = "output"
  /\ Catch(i, "output")
  /\ UNCHANGED <<notBuild, parallelCallCounts, paralellBuilds, write, settled, outDir,
                 publicExists, closeCount, clearCount, zeroCount, regEpoch,
                 closeEpoch>>

\* "if (parallelCallCounts <= 0)" of build()'s finally block.
TeardownAlways(count) == TRUE
ShouldTeardown(count) == count <= 0

\* The handles closed by "paralellBuilds.forEach((bundle) => bundle.close())".
ClosedBy(builds) == RangeOf(builds)

\* "paralellBuilds.length = 0".
KeptBuilds(builds) == builds
ClearedBuilds(builds) == <<>>

\* build()'s finally block, which runs synchronously once doBuild settled:
\* decrement, and at zero close every pushed bundle and clear the list.
Finally(i) ==
  /\ pc[i] = "finally"
  /\ parallelCallCounts' = parallelCallCounts - 1
  /\ zeroCount' = IF parallelCallCounts > 0 /\ parallelCallCounts' = 0
                  THEN zeroCount + 1 ELSE zeroCount
  /\ IF ShouldTeardown(parallelCallCounts')
     THEN /\ closeCount' = [h \in Calls |->
                IF h \in ClosedBy(paralellBuilds)
                THEN closeCount[h] + 1 ELSE closeCount[h]]
          /\ closeEpoch' = [h \in Calls |->
                IF h \in ClosedBy(paralellBuilds)
                THEN zeroCount' ELSE closeEpoch[h]]
          /\ paralellBuilds' = ClearedBuilds(paralellBuilds)
          /\ clearCount' = clearCount + 1
     ELSE UNCHANGED <<closeCount, closeEpoch, paralellBuilds, clearCount>>
  /\ settled' = [settled EXCEPT ![i] =
                   IF thrown[i] = "none" THEN "fulfilled" ELSE thrown[i]]
  /\ pc' = [pc EXCEPT ![i] = "done"]
  /\ UNCHANGED <<notBuild, write, thrown, logged, outDir, publicExists, regEpoch>>

BuildInit ==
  /\ parallelCallCounts = 0
  /\ paralellBuilds = <<>>
  /\ pc = [i \in Calls |-> "idle"]
  /\ write = [i \in Calls |-> TRUE]
  /\ thrown = [i \in Calls |-> "none"]
  /\ logged = [i \in Calls |-> "none"]
  /\ settled = [i \in Calls |-> "pending"]
  /\ outDir = StaleFiles
  /\ publicExists \in BOOLEAN
  /\ closeCount = [i \in Calls |-> 0]
  /\ clearCount = 0
  /\ zeroCount = 0
  /\ regEpoch = [i \in Calls |-> -1]
  /\ closeEpoch = [i \in Calls |-> -1]

\* The steps of an invocation that is in flight.
Settle(i) ==
  \/ ConfigResolved(i)
  \/ ConfigFailed(i)
  \/ Bundled(i)
  \/ BundleFailed(i)
  \/ OutputDone(i)
  \/ OutputFailed(i)
  \/ Finally(i)

NextBuild ==
  \/ \E i \in Calls : BuildEnter(i)
  \/ \E i \in Calls : ConfigResolved(i)
  \/ \E i \in Calls : ConfigFailed(i)
  \/ \E i \in Calls : Bundled(i)
  \/ \E i \in Calls : BundleFailed(i)
  \/ \E i \in Calls : OutputDone(i)
  \/ \E i \in Calls : OutputFailed(i)
  \/ \E i \in Calls : Finally(i)

BuildIdle == BuildInit /\ publicExists = FALSE

(***************************************************************************)
(* plugins/index.ts : getSortedPluginsByHook()                             *)
(***************************************************************************)
HookNames == {"transform", "load"}

\* The value of plugin[hookName]: absent, a bare handler, or an object
\* { order, handler }.
HookValue(kind, order) == [kind |-> kind, order |-> order]
HookValues ==
  { HookValue(Undef, Undef),
    HookValue("function", Undef),
    HookValue("object", "pre"),
    HookValue("object", "post"),
    HookValue("object", Undef) }

\* A plugin is the record of its hook values; its identity is its position in
\* the manifest.
Plugins == [HookNames -> HookValues]

Manifests == UNION {[1..n -> Plugins] : n \in 0..MaxPlugins}

\* sortedPlugins.splice(start, 0, item); start is clamped to the length.
Splice(list, start, item) ==
  LET at == IF start > Len(list) THEN Len(list) ELSE start
  IN  SubSeq(list, 1, at) \o <<item>> \o SubSeq(list, at + 1, Len(list))

\* The three insertion indexes of the loop body.
PreIndexFront(c) == 0
PreIndex(c) == c.pre
PostIndexShort(c) == c.pre + c.post
PostIndex(c) == c.pre + c.normal + c.post
NormalIndex(c) == c.pre + c.normal

\* "if (hook)": the plugin implements the hook.
HasHookAlways(hook) == TRUE
HasHook(hook) == hook.kind # Undef

\* One iteration of "for (const plugin of plugins)"; plugin k is inserted by
\* its position k.
SortIteration(c, manifest, name, k) ==
  LET hook == manifest[k][name] IN
  IF ~HasHook(hook) THEN c
  ELSE IF hook.kind = "object" /\ hook.order = "pre"
       THEN [c EXCEPT !.sorted = Splice(c.sorted, PreIndex(c), k),
                      !.pre = c.pre + 1]
  ELSE IF hook.kind = "object" /\ hook.order = "post"
       THEN [c EXCEPT !.sorted = Splice(c.sorted, PostIndex(c), k),
                      !.post = c.post + 1]
  ELSE [c EXCEPT !.sorted = Splice(c.sorted, NormalIndex(c), k),
                 !.normal = c.normal + 1]

RECURSIVE SortLoop(_, _, _, _)
SortLoop(c, manifest, name, k) ==
  IF k > Len(manifest) THEN c
  ELSE SortLoop(SortIteration(c, manifest, name, k), manifest, name, k + 1)

getSortedPluginsByHook(name, manifest) ==
  SortLoop([sorted |-> <<>>, pre |-> 0, normal |-> 0, post |-> 0],
           manifest, name, 1).sorted

\* A call getSortedPluginsByHook(name, plugins).
CallGetSortedPluginsByHook(name) ==
  /\ hookName' = name
  /\ sortedPlugins' = getSortedPluginsByHook(name, plugins)
  /\ UNCHANGED <<plugins, notSort>>

SortInit ==
  /\ plugins \in Manifests
  /\ hookName = Undef
  /\ sortedPlugins = <<>>

SortIdle == plugins = <<>> /\ hookName = Undef /\ sortedPlugins = <<>>

NextSort == \E name \in HookNames : CallGetSortedPluginsByHook(name)

(***************************************************************************)
(* plugins/index.ts : createPluginHookUtils()                              *)
(***************************************************************************)
\* The utilities of a first manifest and those of the manifest built next.
Utils == {1, 2}

\* The cache entry of hook `name` in the Map of utilities u: each
\* createPluginHookUtils call makes its own Map.
CacheSlotByHook(u, name) == <<1, name>>
CacheSlot(u, name) == <<u, name>>

CacheSlots == Utils \X HookNames

\* getHookHandler(hook): hook.handler of an object hook, else the hook; the
\* handler is named by the plugin that owns it.
getHookHandler(manifest, k, name) ==
  [plugin |-> k,
   handler |-> IF manifest[k][name].kind = "object" THEN "hook.handler"
               ELSE "hook"]

\* getSortedPlugins(hookName) of utilities u over `manifest`: the value
\* returned and the caches afterwards.
getSortedPlugins(cache, u, name, manifest) ==
  IF cache[CacheSlot(u, name)] # <<>>
  THEN [value |-> cache[CacheSlot(u, name)][1], cache |-> cache]
  ELSE LET sorted == getSortedPluginsByHook(name, manifest)
       IN  [value |-> sorted,
            cache |-> [cache EXCEPT ![CacheSlot(u, name)] = <<sorted>>]]

\* getSortedPluginHooks(hookName): the handlers of the sorted plugins.
getSortedPluginHooks(cache, u, name, manifest) ==
  LET r == getSortedPlugins(cache, u, name, manifest)
  IN  [value |-> [k \in 1..Len(r.value) |->
                    getHookHandler(manifest, r.value[k], name)],
       cache |-> r.cache]

Return(u, name, fn, value) ==
  [util |-> u, hookName |-> name, fn |-> fn, value |-> value]

\* createPluginHookUtils(plugins): new utilities with a new, empty Map.
CreatePluginHookUtils(manifest) ==
  /\ Len(utilPlugins) + 1 \in Utils
  /\ utilPlugins' = Append(utilPlugins, manifest)
  /\ sortedPluginsCache' =
       [slot \in CacheSlots |->
          IF slot \in {CacheSlot(Len(utilPlugins) + 1, name) : name \in HookNames}
          THEN <<>> ELSE sortedPluginsCache[slot]]
  /\ UNCHANGED <<lastReturn, notUtils>>

CallGetSortedPlugins(u, name) ==
  /\ u \in 1..Len(utilPlugins)
  /\ \E r \in {getSortedPlugins(sortedPluginsCache, u, name, utilPlugins[u])} :
       /\ sortedPluginsCache' = r.cache
       /\ lastReturn' = <<Return(u, name, "getSortedPlugins", r.value)>>
  /\ UNCHANGED <<utilPlugins, notUtils>>

CallGetSortedPluginHooks(u, name) ==
  /\ u \in 1..Len(utilPlugins)
  /\ \E r \in {getSortedPluginHooks(sortedPluginsCache, u, name,
                                     utilPlugins[u])} :
       /\ sortedPluginsCache' = r.cache
       /\ lastReturn' = <<Return(u, name, "getSortedPluginHooks", r.value)>>
  /\ UNCHANGED <<utilPlugins, notUtils>>

\* The plugins of the manifests the utilities are created for.
UtilPlugins ==
  { [transform |-> HookValue("function", Undef),
     load |-> HookValue("object", "pre")],
    [transform |-> HookValue("object", "pre"),
     load |-> HookValue("function", Undef)],
    [transform |-> HookValue("object", "post"),
     load |-> HookValue(Undef, Undef)] }

UtilManifests == UNION {[1..n -> UtilPlugins] : n \in 0..MaxUtilPlugins}

HookUtilsInit ==
  /\ utilPlugins = <<>>
  /\ sortedPluginsCache = [slot \in CacheSlots |-> <<>>]
  /\ lastReturn = <<>>

HookUtilsIdle == HookUtilsInit

NextHookUtils ==
  \/ \E manifest \in UtilManifests : CreatePluginHookUtils(manifest)
  \/ \E u \in Utils, name \in HookNames : CallGetSortedPlugins(u, name)
  \/ \E u \in Utils, name \in HookNames : CallGetSortedPluginHooks(u, name)


(***************************************************************************)
(* plugins/index.ts : resolvePlugins()                                     *)
(***************************************************************************)
\* An entry of the array literal: a plugin made by the factory `stage` (for
\* a spread bucket, its n-th element), or the null / false of an omitted slot.
Entry(stage, n) == [stage |-> stage, n |-> n]
BuiltIn(stage) == Entry(stage, 0)
Null == Entry("null", 0)
False == Entry("false", 0)

\* A bucket of len opaque plugins, named by bucket and position.
Bucket(name, len) == [k \in 1..len |-> Entry(name, k)]

\* config.build.modulePreload: false, or an object with a polyfill flag.
ModulePreloads ==
  { [object |-> FALSE, polyfill |-> FALSE],
    [object |-> TRUE, polyfill |-> FALSE],
    [object |-> TRUE, polyfill |-> TRUE] }

\* The fields of ResolvedConfig read by resolvePlugins, but for
\* experimental.enableNativePlugin, which is the argument of each run.
\* depsOptimizer / ssrDepsOptimizer are isDepsOptimizerEnabled(config, false)
\* and isDepsOptimizerEnabled(config, true); esbuild is "config.esbuild !==
\* false".
Configs ==
  [ command : {"build", "serve"},
    isWorker : BOOLEAN,
    depsOptimizer : BOOLEAN,
    ssrDepsOptimizer : BOOLEAN,
    modulePreload : ModulePreloads,
    esbuild : BOOLEAN ]

\* Whether resolveBuildPlugins(config) is called: only in the true arm of
\* "isBuild ? await (await import('../build')).resolveBuildPlugins(config) : ...".
CallsProvider(isBuild) == isBuild

\* const buildPlugins = isBuild ? await resolveBuildPlugins(config)
\*                              : { pre: [], post: [] }
BuildPluginsOfAnyMode(isBuild, provided) == provided
BuildPluginsOf(isBuild, provided) ==
  IF isBuild THEN provided ELSE [pre |-> <<>>, post |-> <<>>]

\* depsOptimizerEnabled
DepsOptimizerEnabled(cfg, isBuild) ==
  ~isBuild /\ (cfg.depsOptimizer \/ cfg.ssrDepsOptimizer)

\* A slot filled by one of two implementations chosen by enableNativePlugin.
Pair(native, nativeStage, stage) ==
  IF native THEN BuiltIn(nativeStage) ELSE BuiltIn(stage)

\* The module-preload polyfill slot.
ModulePreloadSlotNoNative(cfg, native) ==
  IF cfg.modulePreload.object /\ cfg.modulePreload.polyfill /\ ~native
  THEN BuiltIn("modulePreloadPolyfillPlugin")
  ELSE Null
ModulePreloadSlot(cfg, native) ==
  IF cfg.modulePreload.object /\ cfg.modulePreload.polyfill
  THEN Pair(native, "nativeModulePreloadPolyfillPlugin",
            "modulePreloadPolyfillPlugin")
  ELSE Null

\* The language-transform slot.
TransformSlot(cfg, native) ==
  IF cfg.esbuild
  THEN Pair(native, "nativeTransformPlugin", "esbuildPlugin")
  ELSE Null

\* "internal server-only plugins are always applied after everything else"
ServerOnlyAlways(isBuild) ==
  << BuiltIn("clientInjectionsPlugin"),
     BuiltIn("cssAnalysisPlugin"),
     BuiltIn("importAnalysisPlugin") >>
ServerOnly(isBuild) ==
  IF isBuild THEN <<>>
  ELSE << BuiltIn("clientInjectionsPlugin"),
          BuiltIn("cssAnalysisPlugin"),
          BuiltIn("importAnalysisPlugin") >>

\* The array literal of the return statement, spreads flattened.
Template(cfg, native, pre, normal, post, provided) ==
  LET isBuild == cfg.command = "build"
      buildPlugins == BuildPluginsOf(isBuild, provided)
  IN
  << IF DepsOptimizerEnabled(cfg, isBuild)
       THEN BuiltIn("optimizedDepsPlugin") ELSE Null,
     IF isBuild THEN BuiltIn("metadataPlugin") ELSE Null,
     IF ~cfg.isWorker THEN BuiltIn("watchPackageDataPlugin") ELSE Null,
     IF ~isBuild THEN BuiltIn("preAliasPlugin") ELSE Null,
     Pair(native, "nativeAliasPlugin", "aliasPlugin") >>
  \o pre
  \o << ModulePreloadSlot(cfg, native),
        BuiltIn("resolvePlugin"),
        BuiltIn("htmlInlineProxyPlugin"),
        BuiltIn("cssPlugin"),
        TransformSlot(cfg, native),
        Pair(native, "nativeJsonPlugin", "jsonPlugin"),
        Pair(native, "nativeWasmHelperPlugin", "wasmHelperPlugin"),
        BuiltIn("webWorkerPlugin"),
        BuiltIn("assetPlugin") >>
  \o normal
  \o << Pair(native, "nativeWasmFallbackPlugin", "wasmFallbackPlugin"),
        BuiltIn("definePlugin"),
        BuiltIn("cssPostPlugin"),
        IF isBuild THEN BuiltIn("buildHtmlPlugin") ELSE False,
        BuiltIn("workerImportMetaUrlPlugin"),
        BuiltIn("assetImportMetaUrlPlugin") >>
  \o buildPlugins.pre
  \o << Pair(native, "nativeDynamicImportVarsPlugin",
             "dynamicImportVarsPlugin"),
        Pair(native, "nativeImportGlobPlugin", "importGlobPlugin") >>
  \o post
  \o buildPlugins.post
  \o ServerOnly(isBuild)

\* Boolean(entry)
TruthyButFalse(entry) == entry # Null
Truthy(entry) == entry # Null /\ entry # False

\* [ ... ].filter(Boolean)
resolvePluginsBucketsSwapped(cfg, native, pre, normal, post, provided) ==
  SelectSeq(Template(cfg, native, post, normal, pre, provided), Truthy)
resolvePlugins(cfg, native, pre, normal, post, provided) ==
  SelectSeq(Template(cfg, native, pre, normal, post, provided), Truthy)

\* A run of resolvePlugins with config.experimental.enableNativePlugin =
\* native.
CallResolvePlugins(native) ==
  /\ resolved' = [resolved EXCEPT ![native] =
       resolvePlugins(config, native, prePlugins, normalPlugins, postPlugins,
                      providerResult)]
  /\ providerInvoked' = [providerInvoked EXCEPT ![native] =
       CallsProvider(config.command = "build")]
  /\ UNCHANGED <<config, prePlugins, normalPlugins, postPlugins,
                 providerResult, notAssemble>>

\* What resolveBuildPlugins may return: two lists of opaque plugins.
ProviderResults ==
  { [pre |-> Bucket("buildPlugins.pre", a), post |-> Bucket("buildPlugins.post", b)] :
      a \in 0..MaxProvided, b \in 0..MaxProvided }

AssembleInit ==
  /\ config \in Configs
  /\ prePlugins \in {Bucket("prePlugins", n) : n \in 0..MaxBucket}
  /\ normalPlugins \in {Bucket("normalPlugins", n) : n \in 0..MaxBucket}
  /\ postPlugins \in {Bucket("postPlugins", n) : n \in 0..MaxBucket}
  /\ providerResult \in ProviderResults
  /\ (config.command # "build"
        => providerResult = [pre |-> <<>>, post |-> <<>>])
  /\ resolved = [n \in BOOLEAN |-> <<>>]
  /\ providerInvoked = [n \in BOOLEAN |-> FALSE]

AssembleIdle ==
  /\ config = [command |-> "build", isWorker |-> FALSE,
               depsOptimizer |-> FALSE, ssrDepsOptimizer |-> FALSE,
               modulePreload |-> [object |-> FALSE, polyfill |-> FALSE],
               esbuild |-> FALSE]
  /\ prePlugins = <<>>
  /\ normalPlugins = <<>>
  /\ postPlugins = <<>>
  /\ providerResult = [pre |-> <<>>, post |-> <<>>]
  /\ resolved = [n \in BOOLEAN |-> <<>>]
  /\ providerInvoked = [n \in BOOLEAN |-> FALSE]

NextAssemble == \E native \in BOOLEAN : CallResolvePlugins(native)

(***************************************************************************)
(* plugins/index.ts : transformWithOxc(), dialect selection                *)
(*                                                                         *)
(* A filename is the sequence of its tokens: a token is a maximal run of   *)
(* word characters (\w+) or one of the characters ".", "?", "#", "/".      *)
(***************************************************************************)
Punctuation == {".", "?", "#", "/"}

IsWord(token) == token \notin Punctuation

\* Two word tokens are never adjacent (a run of word characters is one token).
IsFilename(f) == \A k \in 1..(Len(f) - 1) : ~(IsWord(f[k]) /\ IsWord(f[k + 1]))

\* validExtensionRE = /\.\w+$/ : the name ends with "." and a word.
validExtensionRE(f) ==
  Len(f) >= 2 /\ IsWord(f[Len(f)]) /\ f[Len(f) - 1] = "."

\* cleanUrl(url): the url without its query and hash, url.replace(/[?#].*$/, '').
cleanUrl(f) ==
  LET marks == {k \in 1..Len(f) : f[k] \in {"?", "#"}}
  IN  IF marks = {} THEN f
      ELSE SubSeq(f, 1, (CHOOSE k \in marks : \A j \in marks : k <= j) - 1)

\* path.extname(p), POSIX: one backward scan over the characters.  The scan
\* state is Node's: startDot, startPart, end (0 for Node's -1, positions are
\* 1-based), matchedSlash, preDotState.
RECURSIVE ExtnameScan(_, _, _)
ExtnameScan(f, i, st) ==
  IF i < 1 THEN st
  ELSE IF f[i] = "/"
       THEN IF ~st.matchedSlash
            THEN [st EXCEPT !.startPart = i + 1]
            ELSE ExtnameScan(f, i - 1, st)
       ELSE LET s1 == IF st.end = 0
                      THEN [st EXCEPT !.matchedSlash = FALSE, !.end = i]
                      ELSE st
                s2 == IF f[i] = "."
                      THEN IF s1.startDot = 0
                           THEN [s1 EXCEPT !.startDot = i]
                           ELSE [s1 EXCEPT !.preDotState = 1]
                      ELSE IF s1.startDot # 0
                           THEN [s1 EXCEPT !.preDotState = -1]
                           ELSE s1
            IN  ExtnameScan(f, i - 1, s2)

extname(f) ==
  LET st == ExtnameScan(f, Len(f),
              [startDot |-> 0, startPart |-> 1, end |-> 0,
               matchedSlash |-> TRUE, preDotState |-> 0])
  IN  IF \/ st.startDot = 0
         \/ st.end = 0
         \/ st.preDotState = 0
         \/ /\ st.preDotState = 1
            /\ st.startDot = st.end
            /\ st.startDot = st.startPart + 1
      THEN <<>>
      ELSE SubSeq(f, st.startDot, st.end)

\* The text of a token sequence that is empty or one word.
TextOf(tokens) == IF Len(tokens) = 1 THEN tokens[1] ELSE ""

\* const ext = path.extname(validExtensionRE.test(filename) ? filename
\*                                                        : cleanUrl(filename)).slice(1)
ExtOf(f) ==
  LET e == extname(IF validExtensionRE(f) THEN f ELSE cleanUrl(f))
  IN  TextOf(SubSeq(e, 2, Len(e)))

\* ext -> lang
LangOfExtVerbatim(ext) == ext
LangOfExt(ext) ==
  IF ext = "cjs" \/ ext = "mjs" THEN "js"
  ELSE IF ext = "cts" \/ ext = "mts" THEN "ts"
  ELSE ext

\* let lang = options?.lang; if (!lang) { ... }
LangOf(optionsLang, f) ==
  IF optionsLang # Undef /\ optionsLang # ""
  THEN optionsLang
  ELSE LangOfExt(ExtOf(f))

(***************************************************************************)
(* plugins/index.ts : transformWithOxc(), directive resolution             *)
(***************************************************************************)
\* An optional boolean: None is undefined.
None == <<>>
Some(v) == <<v>>

\* options.jsx: undefined (present = FALSE) or an object.
NoJsx ==
  [present |-> FALSE, runtime |-> Undef, development |-> None,
   pragma |-> Undef, pragmaFrag |-> Undef, importSource |-> Undef,
   refresh |-> None]
EmptyJsx == [NoJsx EXCEPT !.present = TRUE]

\* options.typescript: undefined (present = FALSE) or an object.
NoTypescript == [present |-> FALSE, onlyRemoveTypeImports |-> None]
EmptyTypescript == [present |-> TRUE, onlyRemoveTypeImports |-> None]

\* OxcTransformOptions.  sourcemap is "absent" when the object has no such
\* key, else the text of its value.
NoOptions ==
  [lang |-> Undef, sourcemap |-> "absent", jsx |-> NoJsx,
   typescript |-> NoTypescript]

\* compilerOptions of a loaded tsconfig.
NoCompilerOptions ==
  [jsxFactory |-> Undef, jsxFragmentFactory |-> Undef,
   jsxImportSource |-> Undef, jsx |-> Undef,
   verbatimModuleSyntax |-> None, preserveValueImports |-> None,
   importsNotUsedAsValues |-> Undef]

\* What loadTsconfigJsonForFile does: return { tsconfig, tsconfigFile }, throw
\* a TSConfckParseError carrying tsconfigFile, or throw another error.
Loaded(compilerOptions, tsconfigFile) ==
  [kind |-> "ok", compilerOptions |-> compilerOptions,
   tsconfigFile |-> tsconfigFile]
ParseError(tsconfigFile) ==
  [kind |-> "TSConfckParseError", compilerOptions |-> NoCompilerOptions,
   tsconfigFile |-> tsconfigFile]
OtherError ==
  [kind |-> "Error", compilerOptions |-> NoCompilerOptions,
   tsconfigFile |-> Undef]

\* if (watcher && tsconfigFile && config) ensureWatchedFile(...)
WatchedNever(hasWatcher, tsconfigFile, hasConfig) == {}
Watched(hasWatcher, tsconfigFile, hasConfig) ==
  IF hasWatcher /\ tsconfigFile # Undef /\ hasConfig
  THEN {tsconfigFile} ELSE {}

\* resolvedOptions.jsx after the jsxFactory / jsxFragmentFactory /
\* jsxImportSource assignments and the switch on compilerOptions.jsx.
JsxOf(jsx, co) ==
  LET j0 == IF jsx.present THEN jsx ELSE EmptyJsx
      j1 == IF co.jsxFactory # Undef
            THEN [j0 EXCEPT !.pragma = co.jsxFactory] ELSE j0
      j2 == IF co.jsxFragmentFactory # Undef
            THEN [j1 EXCEPT !.pragmaFrag = co.jsxFragmentFactory] ELSE j1
      j3 == IF co.jsxImportSource # Undef
            THEN [j2 EXCEPT !.importSource = co.jsxImportSource] ELSE j2
  IN  CASE co.jsx = "react-jsxdev" ->
             [j3 EXCEPT !.runtime = "automatic", !.development = Some(TRUE)]
        [] co.jsx = "react" -> [j3 EXCEPT !.runtime = "classic"]
        [] co.jsx = "react-jsx" -> [j3 EXCEPT !.runtime = "automatic"]
        [] OTHER -> j3

JsxPreserveWarning == "The tsconfig jsx preserve is not supported by oxc"
LegacyFlagsWarning == "preserveValueImports + importsNotUsedAsValues is not supported by oxc"

\* case 'preserve': if (lang === 'tsx') ctx.warn(...)
JsxWarnings(lang, co) ==
  IF co.jsx = "preserve" /\ lang = "tsx" THEN {JsxPreserveWarning} ELSE {}

\* The value the legacy flag pair gives onlyRemoveTypeImports, None when the
\* pair is not supported.
LegacyStripAsCommented(preserveValueImports, importsNotUsedAsValues) ==
  IF preserveValueImports = FALSE /\ importsNotUsedAsValues = "remove"
  THEN Some(FALSE)
  ELSE IF /\ preserveValueImports = TRUE
          /\ importsNotUsedAsValues \in {"preserve", "error"}
       THEN Some(TRUE)
       ELSE None
LegacyStrip(preserveValueImports, importsNotUsedAsValues) ==
  IF preserveValueImports = FALSE /\ importsNotUsedAsValues = "remove"
  THEN Some(TRUE)
  ELSE IF /\ preserveValueImports = TRUE
          /\ importsNotUsedAsValues \in {"preserve", "error"}
       THEN Some(FALSE)
       ELSE None

\* Whether the legacy branch is taken: verbatimModuleSyntax is undefined and
\* one of the legacy flags is defined.
LegacyBranch(co) ==
  /\ co.verbatimModuleSyntax = None
  /\ (co.preserveValueImports # None \/ co.importsNotUsedAsValues # Undef)

LegacyOf(co) ==
  LegacyStrip(
    IF co.preserveValueImports = None THEN FALSE
    ELSE co.preserveValueImports[1],
    IF co.importsNotUsedAsValues = Undef THEN "remove"
    ELSE co.importsNotUsedAsValues)

\* resolvedOptions.typescript after the verbatimModuleSyntax / legacy chain.
TypescriptOf(typescript, co) ==
  LET t0 == IF typescript.present THEN typescript ELSE EmptyTypescript IN
  IF co.verbatimModuleSyntax # None
  THEN [t0 EXCEPT !.onlyRemoveTypeImports = co.verbatimModuleSyntax]
  ELSE IF LegacyBranch(co) /\ LegacyOf(co) # None
       THEN [t0 EXCEPT !.onlyRemoveTypeImports = LegacyOf(co)]
       ELSE typescript

TypescriptWarnings(co) ==
  IF LegacyBranch(co) /\ LegacyOf(co) = None
  THEN {LegacyFlagsWarning} ELSE {}

\* const resolvedOptions = { sourcemap: true, ...options, lang }
SpreadOptions(options, lang) ==
  [lang |-> lang,
   sourcemap |-> IF options.sourcemap = "absent" THEN "true"
                 ELSE options.sourcemap,
   jsx |-> options.jsx,
   typescript |-> options.typescript]

\* The spread copies references: an object options.jsx / options.typescript
\* is the object resolvedOptions.jsx / resolvedOptions.typescript, so the
\* assignments to the latter are assignments to the former.
Shared(options, resolvedOptions) ==
  [options EXCEPT
     !.jsx = IF options.jsx.present THEN resolvedOptions.jsx ELSE @,
     !.typescript = IF options.typescript.present
                    THEN resolvedOptions.typescript ELSE @]

\* What a call did: the directive handed to the engine (when it was), the
\* warnings, the error thrown ("none" when it returned), and whether
\* result.code got the jsxInject prologue.
Result(directive, engine, warnings, threw) ==
  [directive |-> directive, engine |-> engine, warnings |-> warnings,
   threw |-> threw, injected |-> FALSE]

\* transformWithOxc(ctx, code, filename, options, inMap, config, watcher):
\* the result, the options object afterwards and the files it registered.
\* engineOk: the engine reports no error.
transformWithOxc(filename, options, load, engineOk, hasConfig, hasWatcher) ==
  LET lang == LangOf(options.lang, filename)
      typed == lang = "ts" \/ lang = "tsx"
      r0 == SpreadOptions(options, lang)
      co == load.compilerOptions
      r1 == IF typed
            THEN [r0 EXCEPT !.jsx = JsxOf(r0.jsx, co),
                            !.typescript = TypescriptOf(r0.typescript, co)]
            ELSE r0
      warnings == IF typed THEN JsxWarnings(lang, co) \cup TypescriptWarnings(co)
                  ELSE {}
  IN
  IF typed /\ load.kind # "ok"
  THEN [result |-> Result(r0, FALSE, {}, load.kind),
        options |-> options,
        watch |-> IF load.kind = "TSConfckParseError"
                  THEN Watched(hasWatcher, load.tsconfigFile, hasConfig)
                  ELSE {}]
  ELSE [result |-> Result(r1, TRUE, warnings,
                          IF engineOk THEN "none" ELSE "TransformError"),
        options |-> Shared(options, r1),
        watch |-> IF typed
                  THEN Watched(hasWatcher, load.tsconfigFile, hasConfig)
                  ELSE {}]

\* The inputs of a call.
Call(filename, load, engineOk, consumer, entry) ==
  [filename |-> filename, load |-> load, engineOk |-> engineOk,
   consumer |-> consumer, entry |-> entry]

\* A direct call of transformWithOxc on the options object, with a config
\* and with the watcher when `server` is set.
CallTransformWithOxc(filename, load, engineOk) ==
  \E r \in {transformWithOxc(filename, oxcTransformOptions, load, engineOk,
                              TRUE, server)} :
      /\ lastCall' = <<Call(filename, load, engineOk, "client",
                            oxcTransformOptions)>>
      /\ lastResult' = <<r.result>>
      /\ oxcTransformOptions' = r.options
      /\ watched' = watched \cup r.watch
      /\ UNCHANGED <<jsxInject, suppliedOptions, server, notOxc>>

(***************************************************************************)
(* plugins/index.ts : oxcPlugin()                                          *)
(* config.oxc sets no include / exclude / jsxInclude / jsxExclude: the     *)
(* default patterns apply.                                                 *)
(***************************************************************************)
\* A pattern /\.(a|b|...)$/ : the name ends with "." and one of the words.
EndsWithExt(f, exts) ==
  Len(f) >= 2 /\ f[Len(f) - 1] = "." /\ f[Len(f)] \in exts

\* createFilter(include, exclude)(id)
createFilter(include, exclude, f) ==
  ~EndsWithExt(f, exclude) /\ EndsWithExt(f, include)

\* createFilter([/\.(m?ts|[jt]sx)$/], /\.js$/)
filter(f) == createFilter({"ts", "mts", "jsx", "tsx"}, {"js"}, f)

\* createFilter(/\.jsx$/, /\.(m?[jt]s|tsx)$/)
jsxFilter(f) ==
  createFilter({"jsx"}, {"js", "ts", "mjs", "mts", "tsx"}, f)

\* jsxExtensionsRE = /\.(?:j|t)sx\b/
jsxExtensionsRE(f) ==
  \E k \in 1..(Len(f) - 1) : f[k] = "." /\ f[k + 1] \in {"jsx", "tsx"}

\* "disable refresh at ssr"
RefreshAtSsr(options, consumer) ==
  IF /\ consumer = "server"
     /\ options.jsx.present
     /\ options.jsx.refresh = Some(TRUE)
  THEN [options EXCEPT !.jsx.refresh = Some(FALSE)]
  ELSE options

\* if ((jsxFilter(id) || jsxFilter(cleanUrl(id))) && !oxcTransformOptions.lang)
\*   oxcTransformOptions.lang = 'jsx'
JsxLang(options, id) ==
  IF (jsxFilter(id) \/ jsxFilter(cleanUrl(id))) /\ options.lang = Undef
  THEN [options EXCEPT !.lang = "jsx"]
  ELSE options

\* The transform hook of the plugin: what it does to the shared options
\* object, what it hands to transformWithOxc and what comes back.
pluginTransform(id, options, load, engineOk, consumer, hasWatcher, inject) ==
  IF ~(filter(id) \/ filter(cleanUrl(id)))
  THEN [result |-> <<>>, options |-> options, watch |-> {}]
  ELSE LET o == JsxLang(RefreshAtSsr(options, consumer), id)
           r == transformWithOxc(id, o, load, engineOk, TRUE, hasWatcher)
       IN  [result |-> <<[r.result EXCEPT !.injected =
                            /\ r.result.threw = "none"
                            /\ inject
                            /\ jsxExtensionsRE(id)]>>,
            options |-> r.options,
            watch |-> r.watch]

\* transform(code, id) in the environment `consumer`.
OxcPluginTransform(id, load, engineOk, consumer) ==
  \E r \in {pluginTransform(id, oxcTransformOptions, load, engineOk, consumer,
                             server, jsxInject)} :
      /\ lastCall' = <<Call(id, load, engineOk, consumer,
                            oxcTransformOptions)>>
      /\ lastResult' = r.result
      /\ oxcTransformOptions' = r.options
      /\ watched' = watched \cup r.watch
      /\ UNCHANGED <<jsxInject, suppliedOptions, server, notOxc>>

\* configureServer(_server) { server = _server }
ConfigureServer ==
  /\ ~server
  /\ server' = TRUE
  /\ UNCHANGED <<jsxInject, suppliedOptions, oxcTransformOptions, lastCall,
                 lastResult, watched, notOxc>>

(***************************************************************************)
(* Inputs of the transformWithOxc / oxcPlugin specifications               *)
(***************************************************************************)
Langs == {"js", "jsx", "ts", "tsx"}

\* Filenames of up to MaxTokens tokens.
Words == {"comp", "worker", "raw", "cjs", "mjs", "cts", "mts"}
Tokens == Words \cup {".", "?", "/"}
Filenames ==
  {f \in UNION {[1..n -> Tokens] : n \in 1..MaxTokens} : IsFilename(f)}

\* Every tsconfig the directive resolution distinguishes.
AllCompilerOptions ==
  [ jsxFactory : {Undef, "h"},
    jsxFragmentFactory : {Undef, "Fragment"},
    jsxImportSource : {Undef, "preact"},
    jsx : {Undef, "react-jsxdev", "react", "react-jsx", "preserve",
           "react-native"},
    verbatimModuleSyntax : {None, Some(TRUE), Some(FALSE)},
    preserveValueImports : {None, Some(TRUE), Some(FALSE)},
    importsNotUsedAsValues : {Undef, "remove", "preserve", "error"} ]

TsconfigFiles == {Undef, "tsconfig.json"}

AllLoads ==
  {Loaded(co, file) : co \in AllCompilerOptions, file \in TsconfigFiles}
    \cup {ParseError(file) : file \in TsconfigFiles}
    \cup {OtherError}

\* Explicit options objects: none; the shape convertEsbuildConfigToOxcConfig
\* returns ({ jsx: {} }); one with every object set.
FullOptions ==
  [lang |-> Undef, sourcemap |-> "false",
   jsx |-> [EmptyJsx EXCEPT !.runtime = "classic", !.pragma = "createElement",
                            !.refresh = Some(TRUE)],
   typescript |-> [EmptyTypescript EXCEPT !.onlyRemoveTypeImports = Some(TRUE)]]

ExplicitOptions ==
  { NoOptions,
    [NoOptions EXCEPT !.jsx = EmptyJsx],
    [NoOptions EXCEPT !.typescript = EmptyTypescript],
    FullOptions }

ScriptFiles ==
  { <<"comp", ".", "ts">>, <<"comp", ".", "tsx">>, <<"comp", ".", "mts">>,
    <<"comp", ".", "jsx">>, <<"comp", ".", "js">> }

\* The project settings of the plugin specification.
PluginLoads ==
  { Loaded(NoCompilerOptions, "tsconfig.json"),
    Loaded([NoCompilerOptions EXCEPT !.jsxFactory = "h",
                                     !.jsx = "react"], "tsconfig.json"),
    Loaded([NoCompilerOptions EXCEPT !.jsx = "react-jsxdev",
                                     !.verbatimModuleSyntax = Some(TRUE)],
           "tsconfig.json"),
    Loaded([NoCompilerOptions EXCEPT !.preserveValueImports = Some(TRUE)],
           "tsconfig.json"),
    ParseError("tsconfig.json") }

OxcInit(options) ==
  /\ suppliedOptions \in options
  /\ oxcTransformOptions = suppliedOptions
  /\ lastCall = <<>>
  /\ lastResult = <<>>
  /\ watched = {}

OxcIdle ==
  /\ OxcInit({NoOptions})
  /\ jsxInject = FALSE
  /\ server = FALSE

\* Dialect selection: one direct call per behaviour, on any filename and any
\* options.lang.
NextLang ==
  /\ lastCall = <<>>
  /\ \E f \in Filenames :
       CallTransformWithOxc(f, Loaded(NoCompilerOptions, Undef), TRUE)

\* Directive resolution: one direct call per behaviour, on any tsconfig.
NextResolve ==
  /\ lastCall = <<>>
  /\ \E f \in ScriptFiles, load \in AllLoads, engineOk \in BOOLEAN :
       CallTransformWithOxc(f, load, engineOk)

\* The plugin: any sequence of transform calls on one options object.
NextOxc ==
  \/ ConfigureServer
  \/ \E id \in ScriptFiles, load \in PluginLoads, engineOk \in BOOLEAN,
        consumer \in {"client", "server"} :
       OxcPluginTransform(id, load, engineOk, consumer)

(***************************************************************************)
(* build/index.ts : resolveBuildOptions()                                  *)
(*                                                                         *)
(* A string is the sequence of its characters.  An optional key of the raw *)
(* options is a record: present says whether the caller wrote the key.     *)
(***************************************************************************)
Chars == {"/", "a", "."}

Strings == UNION {[1..n -> Chars] : n \in 0..MaxBase}

\* A key the caller did not write; value is a filler of the key's type.
Absent(filler) == [present |-> FALSE, value |-> filler]
Present(v) == [present |-> TRUE, value |-> v]

\* { base: '/', ..., write: true, ..., ...raw } : the default unless raw has
\* the key.
Spread(default, key) == IF key.present THEN key.value ELSE default

\* base.replace(/([^/])$/, '$1/') : when the last character exists and is not
\* "/", a "/" follows it.
EnsureSlash(base) ==
  IF Len(base) >= 1 /\ base[Len(base)] # "/"
  THEN Append(base, "/")
  ELSE base

\* resolveBuildOptions(raw)
resolveBuildOptions(raw) ==
  [base |-> EnsureSlash(Spread(<<"/">>, raw.base)),
   write |-> Spread(TRUE, raw.write)]

\* A resolved options object handed in as raw options: every key is present.
AsRaw(options) ==
  [base |-> Present(options.base), write |-> Present(options.write)]

RawOptions ==
  [base : {Absent(<<>>)} \cup {Present(b) : b \in Strings},
   write : {Absent(FALSE), Present(TRUE), Present(FALSE)}]

\* resolveBuildOptions on the caller's options, then on what it returned.
CallResolveBuildOptions ==
  /\ resolveCount < MaxResolves
  /\ buildOptions' =
       <<resolveBuildOptions(IF buildOptions = <<>> THEN rawOptions
                             ELSE AsRaw(buildOptions[1]))>>
  /\ resolveCount' = resolveCount + 1
  /\ UNCHANGED <<rawOptions, notOptions>>

OptionsInit(raws) ==
  /\ rawOptions \in raws
  /\ buildOptions = <<>>
  /\ resolveCount = 0

OptionsIdle ==
  OptionsInit({[base |-> Absent(<<>>), write |-> Absent(FALSE)]})

NextOptions == CallResolveBuildOptions

(***************************************************************************)
(* plugins/index.ts : convertEsbuildConfigToOxcConfig()                    *)
(*                                                                         *)
(* The file declares the function twice: declaration 1 at lines 474-554,   *)
(* declaration 2 at lines 711-786.  Which of the two a build binds to the  *)
(* name is not fixed by the source; a call runs either.                    *)
(***************************************************************************)
Declarations == {1, 2}

\* A warning of logger.warn: the option it is about and the value it names.
Warning(option, value) == [option |-> option, value |-> value]

\* The array of the loader test: ['js', 'jsx', 'ts', 'tsx'] in declaration 1,
\* ['.js', '.jsx', '.ts', 'tsx'] in declaration 2.
LoaderTags(decl) ==
  IF decl = 1 THEN {"js", "jsx", "ts", "tsx"}
  ELSE {".js", ".jsx", ".ts", "tsx"}

\* switch (esbuildTransformOptions.jsx)
ConvertRuntime(jsx) ==
  CASE jsx = "automatic" -> "automatic"
    [] jsx = "transform" -> "classic"
    [] OTHER -> Undef

ConvertJsxWarnings(jsx) ==
  IF jsx = "preserve" THEN {Warning("jsx", "preserve")} ELSE {}

\* if (loader) { if ([...].includes(loader)) oxcOptions.lang = loader
\*               else logger.warn(...) }
ConvertLang(decl, loader) ==
  IF loader # Undef /\ loader \in LoaderTags(decl) THEN loader ELSE Undef

ConvertLoaderWarnings(decl, loader) ==
  IF loader # Undef /\ loader \notin LoaderTags(decl)
  THEN {Warning("loader", loader)} ELSE {}

\* switch (esbuildTransformOptions.sourcemap): the key of oxcOptions is
\* "absent" when it is not assigned.
ConvertSourcemap(decl, sourcemap) ==
  IF decl = 1
  THEN CASE sourcemap \in {"true", "false", Undef} -> sourcemap
         [] sourcemap = "external" -> "true"
         [] OTHER -> "absent"
  ELSE IF sourcemap \in {"true", "false"} THEN sourcemap ELSE "absent"

ConvertSourcemapWarnings(decl, sourcemap) ==
  IF decl = 1
  THEN IF sourcemap \in {"true", "false", Undef, "external", "linked"}
       THEN {} ELSE {Warning("sourcemap", sourcemap)}
  ELSE IF sourcemap \in {"true", "false"}
       THEN {} ELSE {Warning("sourcemap", sourcemap)}

\* convertEsbuildConfigToOxcConfig(esbuildConfig, logger): the OxcOptions
\* returned and the warnings logged.
convertEsbuildConfigToOxcConfig(decl, c) ==
  [options |->
     [jsxInject |-> c.jsxInject,
      include |-> c.include,
      exclude |-> c.exclude,
      jsx |-> [EmptyJsx EXCEPT
                 !.runtime = ConvertRuntime(c.jsx),
                 !.development = IF c.jsxDev = Some(TRUE) THEN Some(TRUE)
                                 ELSE None,
                 !.pragma = c.jsxFactory,
                 !.pragmaFrag = c.jsxFragment,
                 !.importSource = c.jsxImportSource],
      lang |-> ConvertLang(decl, c.loader),
      define |-> c.define,
      sourcemap |-> ConvertSourcemap(decl, c.sourcemap)],
   warnings |-> ConvertJsxWarnings(c.jsx)
                  \cup ConvertLoaderWarnings(decl, c.loader)
                  \cup ConvertSourcemapWarnings(decl, c.sourcemap)]

\* A call, bound to either declaration.
CallConvertEsbuildConfigToOxcConfig(decl) ==
  /\ declaration = 0
  /\ \E r \in {convertEsbuildConfigToOxcConfig(decl, esbuildConfig)} :
       /\ oxcOptions' = <<r.options>>
       /\ loggerWarnings' = r.warnings
  /\ declaration' = decl
  /\ UNCHANGED <<esbuildConfig, notConvert>>

EsbuildConfigs ==
  [ jsxInject : {Undef, "import React from 'react'"},
    include : {Undef, "src"},
    exclude : {Undef},
    jsx : {Undef, "automatic", "transform", "preserve"},
    jsxDev : {None, Some(TRUE), Some(FALSE)},
    jsxFactory : {Undef, "h"},
    jsxFragment : {Undef, "Fragment"},
    jsxImportSource : {Undef, "preact"},
    loader : {Undef, "js", "jsx", "ts", "tsx", ".js", ".tsx", "css"},
    define : {Undef, "defines"},
    sourcemap : {Undef, "true", "false", "external", "linked", "inline",
                 "both"} ]

NoEsbuildConfig ==
  [jsxInject |-> Undef, include |-> Undef, exclude |-> Undef, jsx |-> Undef,
   jsxDev |-> None, jsxFactory |-> Undef, jsxFragment |-> Undef,
   jsxImportSource |-> Undef, loader |-> Undef, define |-> Undef,
   sourcemap |-> Undef]

ConvertInit(configs) ==
  /\ esbuildConfig \in configs
  /\ declaration = 0
  /\ oxcOptions = <<>>
  /\ loggerWarnings = {}

ConvertIdle == ConvertInit({NoEsbuildConfig})

NextConvert == \E decl \in Declarations : CallConvertEsbuildConfigToOxcConfig(decl)

(***************************************************************************)
(* Specifications, one per subsystem                                       *)
(***************************************************************************)
InitBuild ==
  /\ BuildInit /\ SortIdle /\ AssembleIdle /\ OxcIdle /\ OptionsIdle
  /\ HookUtilsIdle
  /\ ConvertIdle

SpecBuild == InitBuild /\ [][NextBuild]_vars

\* Every promise an in-flight invocation awaits settles, and a settled
\* promise's continuation runs.
FairSpecBuild ==
  /\ InitBuild
  /\ [][NextBuild]_vars
  /\ \A i \in Calls : WF_vars(Settle(i))

InitSort ==
  /\ SortInit /\ BuildIdle /\ AssembleIdle /\ OxcIdle /\ OptionsIdle
  /\ HookUtilsIdle
  /\ ConvertIdle

SpecSort == InitSort /\ [][NextSort]_vars

InitAssemble ==
  /\ AssembleInit /\ BuildIdle /\ SortIdle /\ OxcIdle /\ OptionsIdle
  /\ HookUtilsIdle
  /\ ConvertIdle

SpecAssemble == InitAssemble /\ [][NextAssemble]_vars

NotOxcIdle ==
  /\ BuildIdle /\ SortIdle /\ AssembleIdle /\ OptionsIdle /\ HookUtilsIdle
  /\ ConvertIdle

InitOptions ==
  /\ OptionsInit(RawOptions) /\ BuildIdle /\ SortIdle /\ AssembleIdle
  /\ OxcIdle /\ HookUtilsIdle
  /\ ConvertIdle

InitHookUtils ==
  /\ HookUtilsInit /\ BuildIdle /\ SortIdle /\ AssembleIdle /\ OxcIdle
  /\ OptionsIdle /\ ConvertIdle

InitConvert ==
  /\ ConvertInit(EsbuildConfigs) /\ BuildIdle /\ SortIdle /\ AssembleIdle
  /\ OxcIdle /\ OptionsIdle /\ HookUtilsIdle

SpecConvert == InitConvert /\ [][NextConvert]_vars

SpecHookUtils == InitHookUtils /\ [][NextHookUtils]_vars

SpecOptions == InitOptions /\ [][NextOptions]_vars

InitLang ==
  /\ OxcInit({[NoOptions EXCEPT !.lang = l] : l \in Langs \cup {Undef}})
  /\ jsxInject = FALSE
  /\ server = FALSE
  /\ NotOxcIdle

SpecLang == InitLang /\ [][NextLang]_vars

InitResolve ==
  /\ OxcInit(ExplicitOptions)
  /\ jsxInject = FALSE
  /\ server \in BOOLEAN
  /\ NotOxcIdle

SpecResolve == InitResolve /\ [][NextResolve]_vars

InitOxc ==
  /\ OxcInit(ExplicitOptions)
  /\ jsxInject \in BOOLEAN
  /\ server = FALSE
  /\ NotOxcIdle

SpecOxc == InitOxc /\ [][NextOxc]_vars

(***************************************************************************)
(* Claims about build/index.ts                                             *)
(***************************************************************************)
InFlight == {i \in Calls : pc[i] \notin {"idle", "done"}}

\* C1: in every step of every interleaving of build() invocations, the list
\* paralellBuilds is cleared exactly when parallelCallCounts returns to zero
\* in that step (once per return to zero), a handle leaves the list only by
\* such a clear, and no clear and no bundle.close() happens in a step that
\* leaves the counter above zero.
C1_ClearedOncePerReturnToZero ==
  [][ /\ clearCount' \in {clearCount, clearCount + 1}
      /\ (clearCount' = clearCount + 1)
           <=> (parallelCallCounts > 0 /\ parallelCallCounts' = 0)
      /\ (RangeOf(paralellBuilds) \ RangeOf(paralellBuilds') # {})
           => clearCount' = clearCount + 1
      /\ (clearCount' # clearCount \/ closeCount' # closeCount)
           => ~(parallelCallCounts' > 0)
      /\ (clearCount' # clearCount) => paralellBuilds' = <<>>
    ]_vars

\* Two overlapping builds: both handles were closed by the single teardown of
\* the first return to zero.
C1_Witness ==
  \E h, j \in Calls :
    /\ h # j
    /\ closeEpoch[h] = 1 /\ closeEpoch[j] = 1
    /\ clearCount = 1 /\ zeroCount = 1
    /\ parallelCallCounts = 0

\* C2: in every reachable state parallelCallCounts equals the number of
\* build() invocations in flight (entered and not yet left through the
\* finally block), whatever step failed; so it is never negative and is 0
\* when none is in flight.
C2_CounterIsInFlight ==
  /\ parallelCallCounts = Cardinality(InFlight)
  /\ parallelCallCounts >= 0
  /\ (InFlight = {} => parallelCallCounts = 0)

\* One invocation failed in configuration resolution, another in bundling or
\* writing, both have left, and the counter is back at zero.
C2_Witness ==
  \E i, j \in Calls :
    /\ settled[i] = "config"
    /\ settled[j] \in {"bundle", "output", "fs"}
    /\ InFlight = {}
    /\ parallelCallCounts = 0

\* C3: a handle is closed at most once; when it is closed, that happened at
\* the first return to zero of the counter after it was pushed; whenever no
\* invocation is in flight every pushed handle has been closed; and every
\* pushed handle is eventually closed.
C3_Safety ==
  \A h \in Calls :
    /\ closeCount[h] <= 1
    /\ (closeCount[h] = 1 => regEpoch[h] >= 0 /\ closeEpoch[h] = regEpoch[h] + 1)
    /\ (regEpoch[h] >= 0 /\ parallelCallCounts = 0 => closeCount[h] = 1)
    /\ (h \in RangeOf(paralellBuilds) => regEpoch[h] >= 0 /\ closeCount[h] = 0)

C3_HandlesClosedOnce ==
  /\ []C3_Safety
  /\ \A h \in Calls : [](regEpoch[h] >= 0 => <>(closeCount[h] = 1))

\* Two builds one after the other: each handle was closed once, by the
\* teardown of its own idle period.
C3_Witness ==
  \E h, j \in Calls :
    /\ closeCount[h] = 1 /\ closeEpoch[h] = 1
    /\ closeCount[j] = 1 /\ closeEpoch[j] = 2 /\ regEpoch[j] = 1

(***************************************************************************)
(* Claims about getSortedPluginsByHook                                     *)
(***************************************************************************)
\* The tier of a hook value: 'pre' and 'post' are object hooks with that
\* order, everything else that is implemented is normal.
TierOf(hook) ==
  IF hook.kind = "object" /\ hook.order = "pre" THEN "pre"
  ELSE IF hook.kind = "object" /\ hook.order = "post" THEN "post"
  ELSE "normal"

\* The tier of the plugin at position a of the returned list.
SortedTier(a) == TierOf(plugins[sortedPlugins[a]][hookName])

Sorted == hookName # Undef

\* C4: tier-monotonicity. In the list returned for any manifest and hook
\* name, no 'post' plugin precedes a normal or 'pre' plugin and no normal
\* plugin precedes a 'pre' plugin.
C4_TierMonotonic ==
  Sorted =>
    \A a, b \in 1..Len(sortedPlugins) :
      a < b =>
        /\ ~(SortedTier(a) = "post" /\ SortedTier(b) \in {"normal", "pre"})
        /\ ~(SortedTier(a) = "normal" /\ SortedTier(b) = "pre")

\* A manifest listing a 'post', then a normal, then a 'pre' plugin was
\* returned in the order pre, normal, post.
C4_Witness ==
  /\ Sorted
  /\ Len(plugins) = 3
  /\ TierOf(plugins[1][hookName]) = "post" /\ plugins[1][hookName].kind # Undef
  /\ TierOf(plugins[2][hookName]) = "normal" /\ plugins[2][hookName].kind # Undef
  /\ TierOf(plugins[3][hookName]) = "pre"
  /\ sortedPlugins = <<3, 2, 1>>

\* C5: stability. Two plugins of the same tier appear in the returned list
\* in the order of their positions in the manifest.
C5_StableWithinTier ==
  Sorted =>
    \A a, b \in 1..Len(sortedPlugins) :
      (a < b /\ SortedTier(a) = SortedTier(b))
        => sortedPlugins[a] < sortedPlugins[b]

\* Two 'pre' plugins separated in the manifest by a normal one keep their
\* order in front of it.
C5_Witness ==
  /\ Sorted
  /\ Len(sortedPlugins) = 3
  /\ SortedTier(1) = "pre" /\ SortedTier(2) = "pre" /\ SortedTier(3) = "normal"
  /\ sortedPlugins = <<1, 3, 2>>

(***************************************************************************)
(* Claims about resolvePlugins                                             *)
(***************************************************************************)
\* The positions of the manifest m held by a plugin of one of the stages.
PositionsOf(m, stages) == {k \in 1..Len(m) : m[k].stage \in stages}

Before(m, first, second) ==
  \A a \in PositionsOf(m, first) : \A b \in PositionsOf(m, second) : a < b

ServerOnlyStages ==
  {"clientInjectionsPlugin", "cssAnalysisPlugin", "importAnalysisPlugin"}

TransformStages == {"esbuildPlugin", "nativeTransformPlugin"}

ManifestOrdered(m) ==
  /\ Cardinality(PositionsOf(m, {"resolvePlugin"})) = 1
  /\ Cardinality(PositionsOf(m, {"cssPlugin"})) = 1
  /\ Cardinality(PositionsOf(m, {"cssPostPlugin"})) = 1
  /\ Before(m, {"resolvePlugin"}, {"cssPlugin"})
  /\ Before(m, {"resolvePlugin"}, TransformStages)
  /\ Before(m, {"cssPlugin"}, {"cssPostPlugin"})
  /\ IF config.command = "build"
     THEN PositionsOf(m, ServerOnlyStages) = {}
     ELSE /\ Len(m) >= 3
          /\ PositionsOf(m, ServerOnlyStages) = (Len(m) - 2)..Len(m)
          /\ m[Len(m) - 2].stage = "clientInjectionsPlugin"
          /\ m[Len(m) - 1].stage = "cssAnalysisPlugin"
          /\ m[Len(m)].stage = "importAnalysisPlugin"

\* C6: in every manifest resolvePlugins returns, for every run mode and flag
\* combination, module resolution precedes style processing and the language
\* transform, style processing precedes style post-processing, and the three
\* server-only stages are absent in build mode and otherwise are exactly the
\* last three entries.
C6_ManifestOrdering ==
  \A n \in BOOLEAN : resolved[n] # <<>> => ManifestOrdered(resolved[n])

\* A serve-mode manifest with the language transform enabled and user plugins
\* in every bucket.
C6_Witness ==
  /\ config.command = "serve"
  /\ config.esbuild
  /\ Len(prePlugins) > 0 /\ Len(normalPlugins) > 0 /\ Len(postPlugins) > 0
  /\ resolved[FALSE] # <<>>
  /\ PositionsOf(resolved[FALSE], {"esbuildPlugin"}) # {}

\* The native / portable implementation pairs of the template.
NativePairs ==
  { <<"nativeAliasPlugin", "aliasPlugin">>,
    <<"nativeModulePreloadPolyfillPlugin", "modulePreloadPolyfillPlugin">>,
    <<"nativeTransformPlugin", "esbuildPlugin">>,
    <<"nativeJsonPlugin", "jsonPlugin">>,
    <<"nativeWasmHelperPlugin", "wasmHelperPlugin">>,
    <<"nativeWasmFallbackPlugin", "wasmFallbackPlugin">>,
    <<"nativeDynamicImportVarsPlugin", "dynamicImportVarsPlugin">>,
    <<"nativeImportGlobPlugin", "importGlobPlugin">> }

SameSlots(mNative, mPortable) ==
  /\ Len(mNative) = Len(mPortable)
  /\ \A k \in 1..Len(mNative) :
       \/ mNative[k] = mPortable[k]
       \/ /\ <<mNative[k].stage, mPortable[k].stage>> \in NativePairs
          /\ mNative[k].n = mPortable[k].n

\* C7: a repeated run with the same inputs returns the same manifest, and the
\* manifests of two runs that differ only in enableNativePlugin have the same
\* length and agree position by position, except that where one holds the
\* native member of a pair the other holds the portable member of that pair.
C7_NativeToggleKeepsSlots ==
  /\ [](resolved[TRUE] # <<>> /\ resolved[FALSE] # <<>>
          => SameSlots(resolved[TRUE], resolved[FALSE]))
  /\ [][\A n \in BOOLEAN : resolved[n] # <<>> => resolved'[n] = resolved[n]]_vars

\* Both runs were made with the polyfill and the language transform enabled,
\* so every pair is in the manifest.
C7_Witness ==
  /\ resolved[TRUE] # <<>> /\ resolved[FALSE] # <<>>
  /\ config.modulePreload.polyfill
  /\ config.esbuild
  /\ resolved[TRUE] # resolved[FALSE]
  /\ Cardinality({k \in 1..Len(resolved[TRUE]) :
                    resolved[TRUE][k] # resolved[FALSE][k]}) = 8

(***************************************************************************)
(* Claims about transformWithOxc() and oxcPlugin()                         *)
(***************************************************************************)
\* The last call was a typed-script file whose tsconfig loaded.
TypedCall ==
  /\ lastCall # <<>>
  /\ lastResult # <<>>
  /\ lastResult[1].directive.lang \in {"ts", "tsx"}
  /\ lastCall[1].load.kind = "ok"

WithoutQuery(f) ==
  IF \E k \in 1..Len(f) : f[k] \in {"?", "#"}
  THEN [k \in 1..((CHOOSE m \in 1..Len(f) :
                     /\ f[m] \in {"?", "#"}
                     /\ \A j \in 1..(m - 1) : f[j] \notin {"?", "#"}) - 1)
          |-> f[k]]
  ELSE f

\* The extension of a name: in its last path segment (trailing slashes
\* aside), the text after the last ".", when that "." is not the first
\* character of the segment; else the empty text.
ExtensionOf(f) ==
  LET ends == {k \in 1..Len(f) : f[k] # "/"}
      e == IF ends = {} THEN 0 ELSE CHOOSE k \in ends : \A j \in ends : j <= k
      slashes == {k \in 1..e : f[k] = "/"}
      s == IF slashes = {} THEN 1
           ELSE 1 + CHOOSE k \in slashes : \A j \in slashes : j <= k
      dots == {k \in s..e : f[k] = "."}
      d == CHOOSE k \in dots : \A j \in dots : j <= k
  IN  IF dots = {} THEN ""
      ELSE IF d = s \/ d = e THEN ""
      ELSE f[d + 1]

\* cjs / mjs are 'js', cts / mts are 'ts', any other extension is itself.
DialectOfExtension(ext) ==
  CASE ext \in {"cjs", "mjs"} -> "js"
    [] ext \in {"cts", "mts"} -> "ts"
    [] OTHER -> ext

\* The raw name ends in "." and a run of word characters.
EndsInExtension(f) ==
  Len(f) >= 2 /\ f[Len(f) - 1] = "." /\ f[Len(f)] \notin {".", "?", "#", "/"}

\* C9 as stated: options.lang when set, else the dialect of the extension of
\* the filename with any trailing query suffix ignored.
C9_QueryAlwaysIgnored ==
  lastCall # <<>> =>
    lastResult[1].directive.lang =
      IF lastCall[1].entry.lang # Undef THEN lastCall[1].entry.lang
      ELSE DialectOfExtension(ExtensionOf(WithoutQuery(lastCall[1].filename)))

\* C9, amended: options.lang when set; else the dialect of the extension of
\* the raw filename when the raw filename ends in "." and word characters,
\* and of the filename without its query suffix otherwise.
C9_DialectSelection ==
  lastCall # <<>> =>
    lastResult[1].directive.lang =
      IF lastCall[1].entry.lang # Undef THEN lastCall[1].entry.lang
      ELSE IF EndsInExtension(lastCall[1].filename)
           THEN DialectOfExtension(ExtensionOf(lastCall[1].filename))
           ELSE DialectOfExtension(
                  ExtensionOf(WithoutQuery(lastCall[1].filename)))

\* 'worker.cjs?raw' with no options.lang resolved to 'js'.
C9_Witness ==
  /\ lastCall # <<>>
  /\ lastCall[1].entry.lang = Undef
  /\ lastCall[1].filename = <<"worker", ".", "cjs", "?", "raw">>
  /\ lastResult[1].directive.lang = "js"

\* C10 as stated: the directive handed to the engine for a file is the one
\* the same call gives on the explicit options as they were supplied, whatever
\* was transformed before.
C10_DirectiveIsPure ==
  lastCall # <<>> /\ lastResult # <<>> /\ lastResult[1].engine =>
    LET c == lastCall[1]
        fresh == pluginTransform(c.filename, suppliedOptions, c.load,
                                 c.engineOk, c.consumer, server, jsxInject)
    IN  lastResult[1].directive = fresh.result[1].directive

(***************************************************************************)
(* Claims about resolveBuildOptions()                                      *)
(***************************************************************************)
EndsWithSlash(b) == Len(b) >= 1 /\ b[Len(b)] = "/"

\* The base the caller supplied, '/' when the caller supplied none.
SuppliedBase == IF rawOptions.base.present THEN rawOptions.base.value ELSE <<"/">>

\* C11 as stated: for every base path string supplied, the resolved base ends
\* with exactly one trailing "/".
C11_BaseEndsWithOneSlash ==
  buildOptions # <<>> =>
    LET b == buildOptions[1].base
    IN  /\ EndsWithSlash(b)
        /\ Len(b) >= 2 => b[Len(b) - 1] # "/"

\* C12 as stated: the resolved base is the supplied base with a "/" appended
\* when the supplied base does not end with one, and the supplied base itself
\* when it does; resolving the resolved options again yields the same base.
C12_AppendOnceIdempotent ==
  /\ [](buildOptions # <<>> =>
          buildOptions[1].base =
            IF EndsWithSlash(SuppliedBase) THEN SuppliedBase
            ELSE SuppliedBase \o <<"/">>)
  /\ [][buildOptions # <<>> => buildOptions'[1].base = buildOptions[1].base]_vars

(***************************************************************************)
(* Claims about the failure paths and the output directory of build()      *)
(***************************************************************************)
Rejected(i) == settled[i] \notin {"pending", "fulfilled"}

\* C13 as stated: whenever a build() invocation rejects, whatever step
\* failed, the error has been logged before the rejection and the promise
\* rejects with the error that was thrown.
C13_EveryRejectionLogged ==
  \A i \in Calls :
    Rejected(i) => settled[i] = thrown[i] /\ logged[i] = thrown[i]

\* C13, amended: a build() invocation rejects with the error that was thrown;
\* when bundling, output-directory preparation or write / generate failed,
\* that error was logged before the rejection (it is logged as soon as it is
\* caught); when configuration resolution failed, nothing was logged.
C13_RejectionLoggedInTry ==
  \A i \in Calls :
    /\ Rejected(i) => settled[i] = thrown[i]
    /\ thrown[i] \in {"bundle", "fs", "output"} => logged[i] = thrown[i]
    /\ thrown[i] \in {"config", "none"} => logged[i] = "none"

\* One invocation rejected on output-directory preparation and another on
\* configuration resolution.
C13_Witness ==
  \E i, j \in Calls :
    /\ settled[i] = "fs" /\ logged[i] = "fs"
    /\ settled[j] = "config" /\ logged[j] = "none"

\* C14: when configuration resolution fails, the bundler has not been and is
\* not invoked for that invocation, its handle is never pushed, the promise
\* rejects with the configuration error, and the finally block decrements
\* the counter, which stays the number of invocations in flight.
C14_ConfigFailureAborts ==
  /\ [](\A i \in Calls :
          thrown[i] = "config" =>
            /\ pc[i] \in {"finally", "done"}
            /\ regEpoch[i] = -1
            /\ i \notin RangeOf(paralellBuilds)
            /\ closeCount[i] = 0
            /\ settled[i] = IF pc[i] = "done" THEN "config" ELSE "pending"
            /\ parallelCallCounts = Cardinality(InFlight))
  /\ [][\A i \in Calls :
          /\ thrown'[i] = "config" => pc[i] \in {"resolveConfig", "finally", "done"}
          /\ thrown[i] = "config" /\ pc[i] = "finally" /\ pc'[i] = "done"
               => parallelCallCounts' = parallelCallCounts - 1]_vars

\* An invocation failed in configuration resolution while another had pushed
\* its handle; both have left and the counter is at zero.
C14_Witness ==
  \E i, j \in Calls :
    /\ settled[i] = "config"
    /\ regEpoch[j] >= 0
    /\ pc[j] = "done"
    /\ parallelCallCounts = 0

\* Invocation j has prepared or written the output directory.
Touched(j) ==
  /\ write[j]
  /\ pc[j] \in {"output", "finally", "done"}
  /\ thrown[j] \notin {"config", "bundle"}

\* Invocation i completes a build with write = true in this step.
Completes(i) ==
  /\ pc[i] = "output"
  /\ pc'[i] = "finally"
  /\ thrown'[i] = "none"
  /\ write[i]

FreshFiles == {File("fresh", i) : i \in Calls}

\* C15: the output directory holds a stale file before any build.  When a
\* build with write = true completes, the directory holds no stale file and
\* holds the files the build emitted; the build having had the directory to
\* itself, it holds exactly those files and a copy of the public directory
\* when that directory exists.
C15_FreshAndPublicWhenAlone ==
  [][\A i \in Calls :
       Completes(i) =>
         /\ File("fresh", i) \in outDir'
         /\ outDir' \subseteq FreshFiles \cup PublicFiles
         /\ (\A j \in Calls \ {i} : ~Touched(j)) =>
              outDir' = {File("fresh", i)}
                          \cup (IF publicExists THEN PublicFiles ELSE {})]_vars

\* A build with write = true and a public directory has completed alone: the
\* stale file is gone, the emitted file and the public copy are there.
C15_Witness ==
  \E i \in Calls :
    /\ settled[i] = "fulfilled"
    /\ write[i]
    /\ publicExists
    /\ \A j \in Calls \ {i} : pc[j] = "idle"
    /\ outDir = {File("fresh", i)} \cup PublicFiles

(***************************************************************************)
(* Claims about the failure paths of transformWithOxc()                    *)
(***************************************************************************)
\* The last call was a typed-script file whose tsconfig failed to parse.
ParseFailedCall ==
  /\ lastCall # <<>>
  /\ lastResult # <<>>
  /\ lastResult[1].directive.lang \in {"ts", "tsx"}
  /\ lastCall[1].load.kind = "TSConfckParseError"

\* C16: when loading the tsconfig of a typed-script file fails with a
\* TSConfckParseError, the call throws that error, the engine is not invoked,
\* and the tsconfig file the error names is registered with the watcher
\* (when the call was given a watcher).
C16_ParseErrorWatchedThenThrown ==
  ParseFailedCall =>
    /\ lastResult[1].threw = "TSConfckParseError"
    /\ ~lastResult[1].engine
    /\ lastResult[1].warnings = {}
    /\ server /\ lastCall[1].load.tsconfigFile # Undef
         => lastCall[1].load.tsconfigFile \in watched

\* A .ts file, a watcher, and a tsconfig.json that failed to parse: the file
\* is watched and the parse error was thrown.
C16_Witness ==
  /\ ParseFailedCall
  /\ server
  /\ lastCall[1].filename = <<"comp", ".", "ts">>
  /\ lastCall[1].load.tsconfigFile = "tsconfig.json"
  /\ watched = {"tsconfig.json"}
  /\ lastResult[1].threw = "TSConfckParseError"

(***************************************************************************)
(* Claims about createPluginHookUtils()                                    *)
(***************************************************************************)
\* What a call on utilities u returns when nothing is cached.
FreshReturn(u, name, fn) ==
  LET sorted == getSortedPluginsByHook(name, utilPlugins[u])
  IN  IF fn = "getSortedPlugins" THEN sorted
      ELSE [k \in 1..Len(sorted) |->
              getHookHandler(utilPlugins[u], sorted[k], name)]

\* C17: every getSortedPlugins / getSortedPluginHooks call for hook h on the
\* utilities of a manifest returns what a fresh getSortedPluginsByHook(h,
\* manifest) gives; every cache entry is the ordering of its own manifest;
\* utilities not yet created have no entry, so new utilities start with an
\* empty cache; and an entry once cached is never replaced or removed.
C17_CachePerManifest ==
  /\ [](/\ lastReturn # <<>> =>
             lastReturn[1].value =
               FreshReturn(lastReturn[1].util, lastReturn[1].hookName,
                           lastReturn[1].fn)
        /\ \A u \in Utils, name \in HookNames :
             /\ u > Len(utilPlugins) => sortedPluginsCache[<<u, name>>] = <<>>
             /\ u <= Len(utilPlugins) /\ sortedPluginsCache[<<u, name>>] # <<>>
                  => sortedPluginsCache[<<u, name>>][1] =
                       getSortedPluginsByHook(name, utilPlugins[u]))
  /\ [][\A slot \in CacheSlots :
          sortedPluginsCache[slot] # <<>>
            => sortedPluginsCache'[slot] = sortedPluginsCache[slot]]_vars

\* Two utilities over different manifests have both cached 'transform', with
\* different orderings, and the last call, on the second, returned its own.
C17_Witness ==
  /\ Len(utilPlugins) = 2
  /\ sortedPluginsCache[<<1, "transform">>] # <<>>
  /\ sortedPluginsCache[<<2, "transform">>] # <<>>
  /\ sortedPluginsCache[<<1, "transform">>] # sortedPluginsCache[<<2, "transform">>]
  /\ lastReturn # <<>>
  /\ lastReturn[1].util = 2
  /\ lastReturn[1].hookName = "transform"
  /\ lastReturn[1].fn = "getSortedPlugins"
  /\ lastReturn[1].value = sortedPluginsCache[<<2, "transform">>][1]
  /\ lastReturn[1].value # <<>>

(***************************************************************************)
(* Claims about convertEsbuildConfigToOxcConfig()                          *)
(***************************************************************************)
\* C18 as stated: a loader that is one of 'js', 'jsx', 'ts', 'tsx' becomes
\* lang with the same value and no warning; any other loader gives a warning
\* and leaves lang unset; no loader gives neither.
C18_LoaderToLang ==
  oxcOptions # <<>> =>
    LET loader == esbuildConfig.loader
        lang == oxcOptions[1].lang
        warned == Warning("loader", loader) \in loggerWarnings
    IN  IF loader \in {"js", "jsx", "ts", "tsx"}
        THEN lang = loader /\ ~warned
        ELSE IF loader # Undef
             THEN lang = Undef /\ warned
             ELSE lang = Undef /\ ~warned

(***************************************************************************)
(* Claims about the user buckets and the conditional slots of              *)
(* resolvePlugins()                                                        *)
(***************************************************************************)
AliasStages == {"aliasPlugin", "nativeAliasPlugin"}
WasmFallbackStages == {"wasmFallbackPlugin", "nativeWasmFallbackPlugin"}
ImportGlobStages == {"importGlobPlugin", "nativeImportGlobPlugin"}
PolyfillStages ==
  {"modulePreloadPolyfillPlugin", "nativeModulePreloadPolyfillPlugin"}

Once(m, stages) == Cardinality(PositionsOf(m, stages)) = 1

IsPrePlugin(entry) == entry.stage = "prePlugins"
IsNormalPlugin(entry) == entry.stage = "normalPlugins"
IsPostPlugin(entry) == entry.stage = "postPlugins"

BucketsPlaced(m) ==
  /\ Once(m, AliasStages) /\ Once(m, {"resolvePlugin"})
  /\ Once(m, {"assetPlugin"}) /\ Once(m, WasmFallbackStages)
  /\ Once(m, {"definePlugin"}) /\ Once(m, ImportGlobStages)
  /\ Before(m, AliasStages, {"prePlugins"})
  /\ Before(m, {"prePlugins"}, {"resolvePlugin"})
  /\ Before(m, {"assetPlugin"}, {"normalPlugins"})
  /\ Before(m, {"normalPlugins"}, WasmFallbackStages \cup {"definePlugin"})
  /\ Before(m, ImportGlobStages, {"postPlugins"})
  /\ Before(m, {"postPlugins"}, ServerOnlyStages)
  /\ Before(m, {"prePlugins"}, {"normalPlugins"})
  /\ Before(m, {"normalPlugins"}, {"postPlugins"})
  /\ SelectSeq(m, IsPrePlugin) = prePlugins
  /\ SelectSeq(m, IsNormalPlugin) = normalPlugins
  /\ SelectSeq(m, IsPostPlugin) = postPlugins

\* C19: in every manifest resolvePlugins returns, the prePlugins lie after the
\* alias stage and before the resolve stage, the normalPlugins after the asset
\* stage and before the wasm-fallback and define stages, the postPlugins after
\* the import-glob stage and before every server-only stage; so pre precede
\* normal precede post; and each bucket appears whole, in the caller's order.
C19_BucketsPlaced ==
  \A n \in BOOLEAN : resolved[n] # <<>> => BucketsPlaced(resolved[n])

\* A serve-mode run with at least two plugins in each of the three buckets.
C19_Witness ==
  /\ resolved[TRUE] # <<>>
  /\ config.command = "serve"
  /\ Len(prePlugins) >= 2 /\ Len(normalPlugins) >= 2 /\ Len(postPlugins) >= 2
  /\ Cardinality(PositionsOf(resolved[TRUE],
                   {"prePlugins", "normalPlugins", "postPlugins"})) >= 6

\* The slots of the array literal in template order; the two members of a
\* pair share a slot.
TemplateStages ==
  << {"optimizedDepsPlugin"}, {"metadataPlugin"}, {"watchPackageDataPlugin"},
     {"preAliasPlugin"}, AliasStages, {"prePlugins"}, PolyfillStages,
     {"resolvePlugin"}, {"htmlInlineProxyPlugin"}, {"cssPlugin"},
     TransformStages, {"jsonPlugin", "nativeJsonPlugin"},
     {"wasmHelperPlugin", "nativeWasmHelperPlugin"}, {"webWorkerPlugin"},
     {"assetPlugin"}, {"normalPlugins"}, WasmFallbackStages,
     {"definePlugin"}, {"cssPostPlugin"}, {"buildHtmlPlugin"},
     {"workerImportMetaUrlPlugin"}, {"assetImportMetaUrlPlugin"},
     {"buildPlugins.pre"},
     {"dynamicImportVarsPlugin", "nativeDynamicImportVarsPlugin"},
     ImportGlobStages, {"postPlugins"}, {"buildPlugins.post"},
     {"clientInjectionsPlugin"}, {"cssAnalysisPlugin"},
     {"importAnalysisPlugin"} >>

\* The slot of a stage; 0 for what is no stage (null, false).
SlotOf(stage) ==
  IF \E r \in 1..Len(TemplateStages) : stage \in TemplateStages[r]
  THEN CHOOSE r \in 1..Len(TemplateStages) : stage \in TemplateStages[r]
  ELSE 0

Has(m, stages) == PositionsOf(m, stages) # {}

ConditionalSlots(m) ==
  LET isBuild == config.command = "build" IN
  /\ Has(m, {"optimizedDepsPlugin"}) <=>
       ~isBuild /\ (config.depsOptimizer \/ config.ssrDepsOptimizer)
  /\ Has(m, {"preAliasPlugin"}) <=> ~isBuild
  /\ Has(m, PolyfillStages) <=>
       config.modulePreload.object /\ config.modulePreload.polyfill
  /\ Has(m, {"buildHtmlPlugin"}) <=> isBuild
  /\ Has(m, {"metadataPlugin"}) <=> isBuild
  /\ Has(m, {"watchPackageDataPlugin"}) <=> ~config.isWorker
  /\ Has(m, TransformStages) <=> config.esbuild
  /\ \A k \in 1..Len(m) : SlotOf(m[k].stage) # 0
  /\ \A k \in 1..(Len(m) - 1) :
       \/ SlotOf(m[k].stage) < SlotOf(m[k + 1].stage)
       \/ /\ SlotOf(m[k].stage) = SlotOf(m[k + 1].stage)
          /\ m[k].stage = m[k + 1].stage
          /\ m[k].n < m[k + 1].n

\* C20: in every manifest resolvePlugins returns, each conditional slot is
\* present exactly when its flag holds (optimizedDepsPlugin: not build and the
\* optimizer enabled; preAliasPlugin: not build; the module-preload polyfill:
\* modulePreload.polyfill; buildHtmlPlugin and metadataPlugin: build), no
\* null / false entry remains, and the entries are in template order.
C20_ConditionalSlots ==
  \A n \in BOOLEAN : resolved[n] # <<>> => ConditionalSlots(resolved[n])

\* A serve-mode run with the optimizer and the polyfill enabled: the gate,
\* preAlias and the polyfill are in, metadata and buildHtml are out.
C20_Witness ==
  /\ resolved[FALSE] # <<>>
  /\ config.command = "serve"
  /\ config.depsOptimizer
  /\ config.modulePreload.polyfill
  /\ Has(resolved[FALSE], {"optimizedDepsPlugin"})
  /\ Has(resolved[FALSE], {"preAliasPlugin"})
  /\ Has(resolved[FALSE], {"modulePreloadPolyfillPlugin"})
  /\ ~Has(resolved[FALSE], {"metadataPlugin", "buildHtmlPlugin"})

(***************************************************************************)
(* Claims about the build-plugin provider in resolvePlugins()              *)
(***************************************************************************)
DynamicImportVarsStages ==
  {"dynamicImportVarsPlugin", "nativeDynamicImportVarsPlugin"}

\* The one position of the manifest held by one of the stages.
PositionOf(m, stages) == CHOOSE k \in 1..Len(m) : m[k].stage \in stages

IsProvidedPre(entry) == entry.stage = "buildPlugins.pre"
IsProvidedPost(entry) == entry.stage = "buildPlugins.post"

ProviderSpliced(m, n) ==
  IF config.command = "build"
  THEN LET d == PositionOf(m, DynamicImportVarsStages)
           userPost == PositionsOf(m, {"postPlugins"})
           g == IF userPost = {} THEN PositionOf(m, ImportGlobStages)
                ELSE CHOOSE k \in userPost : \A j \in userPost : j <= k
       IN  /\ providerInvoked[n]
           /\ Once(m, DynamicImportVarsStages)
           /\ Once(m, ImportGlobStages)
           /\ SelectSeq(m, IsProvidedPre) = providerResult.pre
           /\ SelectSeq(m, IsProvidedPost) = providerResult.post
           /\ PositionsOf(m, {"buildPlugins.pre"})
                = (d - Len(providerResult.pre))..(d - 1)
           /\ PositionsOf(m, {"buildPlugins.post"})
                = (g + 1)..(g + Len(providerResult.post))
  ELSE /\ ~providerInvoked[n]
       /\ PositionsOf(m, {"buildPlugins.pre", "buildPlugins.post"}) = {}
       /\ \A provided \in ProviderResults :
            BuildPluginsOf(FALSE, provided) = [pre |-> <<>>, post |-> <<>>]

\* C21: in build mode resolveBuildPlugins is called, its pre list holds the
\* positions right before the dynamic-import-vars stage and its post list the
\* positions right after the last of the postPlugins (after the import-glob
\* stage when there is none), both whole and in order; outside build mode it
\* is not called, both lists are empty and the manifest holds none of its
\* plugins.
C21_ProviderSpliced ==
  \A n \in BOOLEAN : resolved[n] # <<>> => ProviderSpliced(resolved[n], n)

\* A build-mode run with a non-empty pre list, a non-empty post list and
\* postPlugins.
C21_Witness ==
  /\ resolved[TRUE] # <<>>
  /\ config.command = "build"
  /\ providerInvoked[TRUE]
  /\ providerResult.pre # <<>> /\ providerResult.post # <<>>
  /\ postPlugins # <<>>
  /\ Has(resolved[TRUE], {"buildPlugins.pre"})
  /\ Has(resolved[TRUE], {"buildPlugins.post"})

(***************************************************************************)
(* Claims about the warnings of transformWithOxc() and                     *)
(* convertEsbuildConfigToOxcConfig()                                       *)
(***************************************************************************)
\* transformWithOxc: a tsconfig with jsx 'preserve' on a .tsx file, or with
\* an unsupported legacy flag pair, gives the warning, leaves the option as
\* the caller passed it, and the engine is invoked; the call returns unless
\* the engine itself reports an error.
C22_TransformWarningsNeverAbort ==
  TypedCall =>
    LET co == lastCall[1].load.compilerOptions
        entry == lastCall[1].entry
        directive == lastResult[1].directive
        completes ==
          /\ lastResult[1].engine
          /\ lastResult[1].threw
               = IF lastCall[1].engineOk THEN "none" ELSE "TransformError"
    IN  /\ co.jsx = "preserve" /\ directive.lang = "tsx"
             => /\ JsxPreserveWarning \in lastResult[1].warnings
                /\ directive.jsx.runtime = entry.jsx.runtime
                /\ directive.jsx.development = entry.jsx.development
                /\ completes
        /\ LegacyBranch(co) /\ LegacyOf(co) = None
             => /\ LegacyFlagsWarning \in lastResult[1].warnings
                /\ directive.typescript.onlyRemoveTypeImports
                     = entry.typescript.onlyRemoveTypeImports
                /\ completes

\* convertEsbuildConfigToOxcConfig: every call returns an options object;
\* jsx 'preserve', a loader other than 'js' / 'jsx' / 'ts' / 'tsx', and a
\* sourcemap value other than true / false / unset / 'external' / 'linked'
\* each give a warning and leave their option of the result unset.
C22_ConvertWarningsNeverAbort ==
  declaration # 0 =>
    /\ oxcOptions # <<>>
    /\ esbuildConfig.jsx = "preserve"
         => /\ Warning("jsx", "preserve") \in loggerWarnings
            /\ oxcOptions[1].jsx.runtime = Undef
    /\ esbuildConfig.loader \notin {Undef, "js", "jsx", "ts", "tsx"}
         => /\ Warning("loader", esbuildConfig.loader) \in loggerWarnings
            /\ oxcOptions[1].lang = Undef
    /\ esbuildConfig.sourcemap
         \notin {Undef, "true", "false", "external", "linked"}
         => /\ Warning("sourcemap", esbuildConfig.sourcemap) \in loggerWarnings
            /\ oxcOptions[1].sourcemap = "absent"

\* C22 as stated: for every unsupported option or combination (tsconfig jsx
\* 'preserve' on a JSX-dialect file, an unsupported legacy flag pair, legacy
\* jsx 'preserve', an unsupported legacy loader, an unsupported legacy
\* sourcemap value) a warning is emitted, the option is dropped and the
\* resolution completes: transformWithOxc invokes the engine and
\* convertEsbuildConfigToOxcConfig returns an options object.
C22_WarningsNeverAbort ==
  C22_TransformWarningsNeverAbort /\ C22_ConvertWarningsNeverAbort

\* The same for the first declaration of convertEsbuildConfigToOxcConfig
\* alone.
C22_FirstDeclarationWarns ==
  declaration = 1 => C22_ConvertWarningsNeverAbort

(***************************************************************************)
(* Claims about getSortedPluginsByHook() as a partition                    *)
(***************************************************************************)
\* The positions k..Len(plugins) of the manifest whose plugin has a truthy
\* hookName hook of the tier, in manifest order: one of the three buffers.
RECURSIVE Buffer(_, _)
Buffer(tier, k) ==
  IF k > Len(plugins) THEN <<>>
  ELSE (IF /\ plugins[k][hookName].kind # Undef
           /\ TierOf(plugins[k][hookName]) = tier
        THEN <<k>> ELSE <<>>) \o Buffer(tier, k + 1)

Implementing == {k \in 1..Len(plugins) : plugins[k][hookName].kind # Undef}

\* C23: the list built by the indexed splices is the concatenation
\* pre ++ normal ++ post of the three buffers of a stable partition of the
\* plugins with a truthy hook; it holds every implementing plugin exactly
\* once and no plugin lacking the hook.
C23_SpliceIsPartition ==
  Sorted =>
    /\ sortedPlugins = Buffer("pre", 1) \o Buffer("normal", 1) \o Buffer("post", 1)
    /\ {sortedPlugins[a] : a \in 1..Len(sortedPlugins)} = Implementing
    /\ Len(sortedPlugins) = Cardinality(Implementing)

\* A manifest of a plugin lacking the hook, a 'post' plugin and a 'pre'
\* plugin: the list is the 'pre' plugin, then the 'post' plugin.
C23_Witness ==
  /\ Sorted
  /\ Len(plugins) = 3
  /\ plugins[1][hookName].kind = Undef
  /\ TierOf(plugins[2][hookName]) = "post"
  /\ TierOf(plugins[3][hookName]) = "pre"
  /\ sortedPlugins = <<3, 2>>

(***************************************************************************)
(* Claims about the dialect of successive files in oxcPlugin()             *)
(***************************************************************************)
\* C24 as stated: in a plugin configured without an explicit lang, every
\* file handed to transformWithOxc gets the dialect of its own extension,
\* whatever was transformed before: after a '.jsx' file, a '.ts' or '.mts'
\* file is still resolved to 'ts'.
C24_DialectPerFile ==
  /\ suppliedOptions.lang = Undef
  /\ lastCall # <<>>
  /\ lastResult # <<>>
  => lastResult[1].directive.lang
       = DialectOfExtension(ExtensionOf(WithoutQuery(lastCall[1].filename)))

(***************************************************************************)
(* Claims about the table in the comment of transformWithOxc()             *)
(***************************************************************************)
\* C25 as stated: when verbatimModuleSyntax is unset and a legacy flag is
\* set, the pair resolves as the table in the code comment says, to the
\* value of its equivalent verbatimModuleSyntax setting:
\* preserveValueImports = false with importsNotUsedAsValues = 'remove' gives
\* onlyRemoveTypeImports = false, and preserveValueImports = true with
\* 'preserve' or 'error' gives onlyRemoveTypeImports = true.
C25_LegacyPairAsDocumented ==
  TypedCall /\ LegacyBranch(lastCall[1].load.compilerOptions) =>
    LET co == lastCall[1].load.compilerOptions
        pvi == IF co.preserveValueImports = None THEN FALSE
               ELSE co.preserveValueImports[1]
        inuv == IF co.importsNotUsedAsValues = Undef THEN "remove"
                ELSE co.importsNotUsedAsValues
        flag == lastResult[1].directive.typescript.onlyRemoveTypeImports
    IN  /\ ~pvi /\ inuv = "remove" => flag = Some(FALSE)
        /\ pvi /\ inuv \in {"preserve", "error"} => flag = Some(TRUE)

(***************************************************************************)
(* Claims about what doBuild() does to the output directory                *)
(***************************************************************************)
\* Invocation i takes the step.
Steps(i) == pc'[i] # pc[i]

\* The step is the continuation of invocation i after rollup.rollup()
\* fulfilled.
AfterBundling(i) ==
  Steps(i) /\ pc[i] = "rollup" /\ thrown'[i] # "bundle"

\* The step is the fulfilment of bundle.write() of invocation i.
BackendWrites(i) ==
  Steps(i) /\ pc[i] = "output" /\ thrown'[i] = "none"

\* C26: every step that changes the output directory is taken by an
\* invocation with write enabled, after its bundling succeeded: no step of
\* an invocation that fails in resolveConfig or in rollup.rollup(), and no
\* step of an invocation with write = false, changes it.  The preparation
\* clears before it copies (it leaves exactly the public files, or nothing
\* when there is no public directory), and an invocation's files are
\* written only after its preparation.
C26_OutDirFrame ==
  [][ /\ outDir' # outDir =>
           \E i \in Calls :
             write[i] /\ (AfterBundling(i) \/ BackendWrites(i))
      /\ \A i \in Calls :
           /\ Steps(i) /\ (~write[i] \/ thrown'[i] \in {"config", "bundle"})
                => outDir' = outDir
           /\ AfterBundling(i) /\ write[i] /\ thrown'[i] = "none"
                => outDir' = IF publicExists THEN PublicFiles ELSE {}
           /\ File("fresh", i) \in outDir' \ outDir
                => BackendWrites(i) /\ write[i]
    ]_vars

\* A build with write = false and a build with write = true both fulfilled;
\* the directory holds the public files and the files of the second only.
C26_Witness ==
  /\ publicExists
  /\ ~write[1] /\ settled[1] = "fulfilled"
  /\ write[2] /\ settled[2] = "fulfilled"
  /\ outDir = PublicFiles \cup {File("fresh", 2)}

====
